---- MODULE Spec2Model ----
(***************************************************************************)
(* A model of axlearn/cloud/gcp/job.py: the SSH dispatcher of TPUQRMJob    *)
(* (_infer_iap, _execute_remote_cmd, execute with its ssh-agent), the      *)
(* JobSet compiler of TPUGKEJob (_build_container, _build_pod, _build_job, *)
(* _build_jobset), its constructor with _execute and _delete, and the      *)
(* command escaping of _prepare_cmd_for_gcloud_ssh.                        *)
(*                                                                         *)
(* Python values: Optional[T] is a sequence of length 0 (None) or 1; a     *)
(* dict is a function on its keys; a list is a sequence; str is a string,  *)
(* or a sequence of one-character strings where characters are inspected.  *)
(***************************************************************************)
EXTENDS Integers, Sequences, FiniteSets, TLC

\* ------------------------------------------------------------- bounds
MaxReplicas == 2
MaxLookups == 2
MaxTries == 3
MaxCmdLen == 3
MaxClusterCalls == 2
MaxAgentCalls == 3

\* -------------------------------------------------- program constants
\* len(detached_session) > 80 is rejected.
MaxScreenName == 80

\* ------------------------------------------------------ Python values
None == <<>>

Some(v) == <<v>>

\* bool(o) of an Optional[str]: None and "" are falsy.
Truthy(o) == o # None /\ o[1] # ""

EmptyDict == [k \in {} |-> TRUE]

\* dict.setdefault(k, v), as the resulting dict.
setdefault(d, k, v) == IF k \in DOMAIN d THEN d ELSE d @@ (k :> v)

RECURSIVE Rep(_)
\* A string of n characters.
Rep(n) == IF n = 0 THEN "" ELSE "s" \o Rep(n - 1)

RECURSIVE Join(_)
\* "".join(chars)
Join(chars) == IF chars = <<>> THEN "" ELSE Head(chars) \o Join(Tail(chars))

RECURSIVE Replace(_, _, _)
\* str.replace(old, new) for a one-character old, on a sequence of characters.
Replace(chars, old, new) ==
    IF chars = <<>> THEN <<>>
    ELSE (IF Head(chars) = old THEN new ELSE <<Head(chars)>>)
         \o Replace(Tail(chars), old, new)

\* ------------------------------------------------------ errors
\* raise ValueError(f"Expected TPU {cfg.name} to exist")
NoTpuError == [exc |-> "ValueError", msg |-> "Expected TPU to exist"]

\* raise ValueError(f"Screen name {detached_session} is too long.")
ScreenNameError == [exc |-> "ValueError", msg |-> "Screen name is too long."]

\* subprocess.CalledProcessError, raised by a checked run.
CalledProcessError == [exc |-> "CalledProcessError", msg |-> "non-zero exit status"]

\* ------------------------------------------------------ command escaping
\* The characters shlex.quote leaves unquoted: [a-zA-Z0-9_@%+=:,./-], of
\* which the commands of this model use these.
SafeChars == {"a", "b", "l", "s", "x", "0", "1", "_", "@", "%", "+", "=", ":",
              ",", ".", "/", "-"}

\* shlex.quote(s)
shlex_quote(s) ==
    IF s = <<>> THEN <<"'", "'">>
    ELSE IF \A i \in 1..Len(s) : s[i] \in SafeChars THEN s
    ELSE <<"'">> \o Replace(s, "'", <<"'", "\"", "'", "\"", "'">>) \o <<"'">>

_prepare_cmd_for_gcloud_ssh(cmd) ==
    LET quoted == shlex_quote(cmd)
        dq == Replace(quoted, "\"", <<"\\", "\"">>)
    IN Replace(dq, "$", <<"\\", "$">>)

RECURSIVE DoubleQuoted(_, _, _)
\* What the local shell makes of the characters s[i..] put between the double
\* quotes of --command="...": a backslash before ", $ or \ is dropped and
\* the character that follows is taken literally; a " not so escaped closes
\* the argument; a $ not so escaped starts an expansion; any other character,
\* a backslash before another character included, stands for itself.
DoubleQuoted(s, i, acc) ==
    IF i > Len(s) THEN acc
    ELSE IF s[i] = "\\" /\ i < Len(s) /\ s[i + 1] \in {"\"", "$", "\\"}
    THEN DoubleQuoted(s, i + 2, [acc EXCEPT !.out = Append(acc.out, s[i + 1])])
    ELSE IF s[i] = "\"" THEN [acc EXCEPT !.closed = TRUE]
    ELSE IF s[i] = "$" THEN [acc EXCEPT !.expanded = TRUE]
    ELSE DoubleQuoted(s, i + 1, [acc EXCEPT !.out = Append(acc.out, s[i])])

\* f"pushd /root && {cmd}"
PushdRoot(cmd) ==
    <<"p", "u", "s", "h", "d", " ", "/", "r", "o", "o", "t", " ", "&", "&", " ">> \o cmd

\* ls "$x"
Command == <<"l", "s", " ", "\"", "$", "x", "\"">>

\* _prepare_cmd_for_gcloud_ssh(f"pushd /root && {cmd}") as a str, tabulated
\* over the commands of the model.
Prepared == Command :> Join(_prepare_cmd_for_gcloud_ssh(PushdRoot(Command)))

\* ------------------------------------------------------ subprocess
\* Mutant: check is not enabled by default.
_prepare_subprocess_kwargs_unchecked(kwargs) ==
    LET k1 == setdefault(kwargs, "text", TRUE)
        k2 == setdefault(k1, "check", FALSE)
    IN setdefault(k2, "capture_output", (DOMAIN k2) \cap {"stdout", "stderr"} = {})

\* subprocess options "by default": text, check, capture_output.
_prepare_subprocess_kwargs(kwargs) ==
    LET k1 == setdefault(kwargs, "text", TRUE)
        k2 == setdefault(k1, "check", TRUE)
    IN setdefault(k2, "capture_output", (DOMAIN k2) \cap {"stdout", "stderr"} = {})

\* subprocess_run(cmd, **kwargs): run the command, whose exit status is `exit`;
\* check=True raises CalledProcessError on a non-zero status.
subprocess_run(argv, kwargs, exit) ==
    IF "check" \in DOMAIN kwargs /\ kwargs["check"] /\ exit # 0
    THEN [raised |-> Some(CalledProcessError), proc |-> None]
    ELSE [raised |-> None, proc |-> Some([args |-> argv, returncode |-> exit])]

\* ------------------------------------------------------ TPUQRMJob
FlagInternalIp == "--internal-ip"

FlagIap == "--tunnel-through-iap"

\* Mutant: only the first network endpoint is inspected.
HasNatIP_first_endpoint(node) ==
    /\ Len(node.networkEndpoints) > 0
    /\ \E a \in 1..Len(node.networkEndpoints[1].accessConfig) :
           Truthy(node.networkEndpoints[1].accessConfig[a].natIP)

\* Whether some access config of some network endpoint of the node has a natIP.
HasNatIP(node) ==
    \E e \in 1..Len(node.networkEndpoints) :
        \E a \in 1..Len(node.networkEndpoints[e].accessConfig) :
            Truthy(node.networkEndpoints[e].accessConfig[a].natIP)

\* Mutant: the inferred value is not kept, every call queries the node.
_infer_iap_no_memo(use_iap, cfg, node) ==
    LET calls == <<[op |-> "get_credentials"], [op |-> "get_tpu_node", name |-> cfg.name]>>
    IN IF node = None
       THEN [use_iap |-> use_iap, raised |-> Some(NoTpuError), ret |-> FALSE,
             calls |-> calls]
       ELSE [use_iap |-> Some(~HasNatIP(node[1])), raised |-> None,
             ret |-> ~HasNatIP(node[1]), calls |-> calls]

\* Mutant: a node that does not exist is taken to have no public address.
_infer_iap_missing_is_private(use_iap, cfg, node) ==
    IF use_iap = None
    THEN LET query == IF cfg.accelerator.num_replicas > 1
                      THEN "get_queued_tpu_node" ELSE "get_tpu_node"
             calls == <<[op |-> "get_credentials"], [op |-> query, name |-> cfg.name]>>
         IN IF node # None /\ HasNatIP(node[1])
            THEN [use_iap |-> Some(FALSE), raised |-> None, ret |-> FALSE,
                  calls |-> calls]
            ELSE [use_iap |-> Some(TRUE), raised |-> None, ret |-> TRUE,
                  calls |-> calls]
    ELSE [use_iap |-> use_iap, raised |-> None, ret |-> use_iap[1], calls |-> <<>>]

\* TPUQRMJob._infer_iap, given self._use_iap and what the node query answers:
\* the new self._use_iap, the value returned or the error raised, and the
\* external calls made.
_infer_iap(use_iap, cfg, node) ==
    IF use_iap = None
    THEN LET query == IF cfg.accelerator.num_replicas > 1
                      THEN "get_queued_tpu_node" ELSE "get_tpu_node"
             calls == <<[op |-> "get_credentials"], [op |-> query, name |-> cfg.name]>>
         IN IF node = None
            THEN [use_iap |-> None, raised |-> Some(NoTpuError), ret |-> FALSE,
                  calls |-> calls]
            ELSE IF HasNatIP(node[1])
            THEN [use_iap |-> Some(FALSE), raised |-> None, ret |-> FALSE,
                  calls |-> calls]
            ELSE [use_iap |-> Some(TRUE), raised |-> None, ret |-> TRUE,
                  calls |-> calls]
    ELSE [use_iap |-> use_iap, raised |-> None, ret |-> use_iap[1], calls |-> <<>>]

\* Mutant: the slice indices start at 1.
Slices_from_one(cfg) ==
    IF cfg.accelerator.num_replicas > 1
    THEN [i \in 1..cfg.accelerator.num_replicas |-> cfg.name \o "-" \o ToString(i)]
    ELSE <<cfg.name>>

\* The slices of the job: [f"{cfg.name}-{i}" for i in range(num_replicas)], or
\* [cfg.name].
Slices(cfg) ==
    IF cfg.accelerator.num_replicas > 1
    THEN [i \in 1..cfg.accelerator.num_replicas |->
             cfg.name \o "-" \o ToString(i - 1)]
    ELSE <<cfg.name>>

\* The gcloud command line for one slice, by its parts.
cmd_for_slice(cfg, s, worker, batch_size, extra_ssh_flags, cmd) ==
    [op |-> "gcloud alpha compute -q tpus tpu-vm ssh", slice |-> s,
     project |-> cfg.project, zone |-> cfg.zone, worker |-> worker,
     batch_size |-> batch_size, extra_ssh_flags |-> extra_ssh_flags,
     command |-> cmd]

RECURSIVE RunSlices(_, _, _, _, _, _, _)
\* for s in slices: proc = subprocess_run(cmd_for_slice, ...); procs.append(proc)
\* An error leaves the loop and the call, which then returns no procs.
RunSlices(cfg, slices, i, args, line, exits, acc) ==
    IF i > Len(slices) THEN [acc EXCEPT !.raised = None]
    ELSE LET argv == cmd_for_slice(cfg, slices[i], args.worker, args.batch_size,
                                   line.extra_ssh_flags, line.cmd)
             r == subprocess_run(argv, _prepare_subprocess_kwargs(args.kwargs),
                                 exits[i])
             calls == Append(acc.calls, argv)
         IN IF r.raised # None
            THEN [acc EXCEPT !.raised = r.raised, !.calls = calls, !.procs = <<>>]
            ELSE RunSlices(cfg, slices, i + 1, args, line, exits,
                           [acc EXCEPT !.calls = calls,
                                       !.procs = Append(acc.procs, r.proc[1])])

\* TPUQRMJob._ensure_ssh_keys, as the local calls it makes: the known-hosts
\* file is removed if it exists, and ssh-add is run (its status only logged).
_ensure_ssh_keys ==
    <<[op |-> "unlink", name |-> ".ssh/google_compute_known_hosts"],
      [op |-> "ssh-add", name |-> ".ssh/google_compute_engine"]>>

\* Mutant: tunneling is inferred from inside the network too.
RouteFlags_always_infer(use_iap, cfg, extra_ssh_flags, env) ==
    LET iap == _infer_iap(use_iap, cfg, env.node)
        internal == IF env.from_vm THEN <<FlagInternalIp>> ELSE <<>>
    IN [use_iap |-> iap.use_iap, raised |-> iap.raised, calls |-> iap.calls,
        extra_ssh_flags |-> (IF iap.ret THEN <<FlagIap>> ELSE <<>>) \o internal
                            \o extra_ssh_flags]

\* running_from_vm() decides the routing flags: --internal-ip from inside,
\* else --tunnel-through-iap when _infer_iap() says so.
RouteFlags(use_iap, cfg, extra_ssh_flags, env) ==
    IF env.from_vm
    THEN [use_iap |-> use_iap, raised |-> None, calls |-> _ensure_ssh_keys,
          extra_ssh_flags |-> <<FlagInternalIp>> \o extra_ssh_flags]
    ELSE LET iap == _infer_iap(use_iap, cfg, env.node)
         IN [use_iap |-> iap.use_iap, raised |-> iap.raised, calls |-> iap.calls,
             extra_ssh_flags |-> IF iap.ret THEN <<FlagIap>> \o extra_ssh_flags
                                 ELSE extra_ssh_flags]

\* Mutant: a name of the limit's length is rejected too.
TooLong_at_limit(detached_session) == Len(detached_session) >= MaxScreenName

\* len(detached_session) > 80
TooLong(detached_session) == Len(detached_session) > MaxScreenName

\* TPUQRMJob._execute_remote_cmd(cmd, **args) on a job whose _use_iap is
\* use_iap, where env is what the outside answers: running_from_vm(), the node
\* query and each slice's exit status. The result: the new _use_iap, the
\* calls made in order, the error raised (or None) and the procs returned.
_execute_remote_cmd(use_iap, cfg, args, env) ==
    LET Rest(route, bash) ==
            LET start == [use_iap |-> route.use_iap, calls |-> route.calls,
                          raised |-> None, procs |-> <<>>]
            IN IF route.raised # None THEN [start EXCEPT !.raised = route.raised]
               ELSE IF Truthy(args.detached_session)
                       /\ TooLong(args.detached_session[1])
               THEN [start EXCEPT !.raised = Some(ScreenNameError)]
               ELSE LET cmd == IF Truthy(args.detached_session)
                               THEN "sudo screen -dmS " \o args.detached_session[1]
                                    \o " " \o bash
                               ELSE bash
                    IN RunSlices(cfg, Slices(cfg), 1, args,
                                 [extra_ssh_flags |-> route.extra_ssh_flags,
                                  cmd |-> cmd],
                                 env.exits, start)
    IN Rest(RouteFlags(use_iap, cfg, args.extra_ssh_flags, env),
            "sudo bash -c " \o Prepared[args.cmd])

\* ------------------------------------------------------ TPUGKEJob
\* A str or an int value of a Python dict.
PyStr(s) == [str |-> s]

PyInt(i) == [int |-> i]

\* str(v)
str(v) == IF "int" \in DOMAIN v THEN ToString(v.int) ELSE v.str

\* infer_tpu_type(instance_type): the instance type without its "tpu-" prefix.
infer_tpu_type ==
    [t \in {"tpu-v4-8", "tpu-v4-16", "tpu-v5litepod-16", "tpu-v3-8"} |->
        CASE t = "tpu-v4-8" -> "v4-8"
          [] t = "tpu-v4-16" -> "v4-16"
          [] t = "tpu-v5litepod-16" -> "v5litepod-16"
          [] t = "tpu-v3-8" -> "v3-8"]

\* The topology table: per TPU type, the chips per host, the hosts per slice
\* and the node-pool labels.
USER_FACING_NAME_TO_SYSTEM_CHARACTERISTICS ==
    [t \in {"v4-8", "v4-16", "v5litepod-16"} |->
        CASE t = "v4-8" ->
                 [chips_per_vm |-> 4, vms_per_slice |-> 1,
                  gke_accelerator |-> "tpu-v4-podslice", topology |-> "2x2x1"]
          [] t = "v4-16" ->
                 [chips_per_vm |-> 4, vms_per_slice |-> 2,
                  gke_accelerator |-> "tpu-v4-podslice", topology |-> "2x2x2"]
          [] t = "v5litepod-16" ->
                 [chips_per_vm |-> 4, vms_per_slice |-> 4,
                  gke_accelerator |-> "tpu-v5-lite-podslice", topology |-> "4x4"]]

\* self._bundler.id(name): the image the docker bundler pushes for the job.
BundlerId(bundler, name) == bundler.repo \o "/" \o bundler.image \o ":" \o name

\* os.environ.get(key, None)
environ_get(environ, key) ==
    IF key \in DOMAIN environ THEN Some(environ[key]) ELSE None

\* --- urlparse, on a sequence of characters
SchemeChars == {"g", "s", "a", "b", "c", "+", "-", ".", "0", "1"}

SchemeStart == {"g", "s", "a", "b", "c"}

\* The least index from `from` on whose character is in `stops`, or Len + 1.
FindFirst(url, from, stops) ==
    LET hits == {i \in from..Len(url) : url[i] \in stops}
    IN IF hits = {} THEN Len(url) + 1
       ELSE CHOOSE i \in hits : \A j \in hits : i <= j

\* Mutant: the netloc runs on through the path, up to "?" or "#".
urlparse_netloc_to_end(url) ==
    LET colon == FindFirst(url, 1, {":"})
        has_scheme == /\ colon <= Len(url)
                      /\ colon > 1
                      /\ url[1] \in SchemeStart
                      /\ \A i \in 1..(colon - 1) : url[i] \in SchemeChars
        after == IF has_scheme THEN colon + 1 ELSE 1
        has_netloc == /\ after + 1 <= Len(url)
                      /\ url[after] = "/" /\ url[after + 1] = "/"
        net_end == IF has_netloc THEN FindFirst(url, after + 2, {"?", "#"})
                   ELSE after
        path_end == FindFirst(url, net_end, {"?", "#"})
    IN [scheme |-> IF has_scheme THEN SubSeq(url, 1, colon - 1) ELSE <<>>,
        netloc |-> IF has_netloc THEN SubSeq(url, after + 2, net_end - 1) ELSE <<>>,
        path |-> SubSeq(url, net_end, path_end - 1)]

\* urllib.parse.urlparse(url), of which netloc and path are read: the scheme
\* is what precedes the first ":" when that is a scheme; the netloc follows
\* "//" up to the next "/", "?" or "#"; the path ends at "?" or "#".
urlparse(url) ==
    LET colon == FindFirst(url, 1, {":"})
        has_scheme == /\ colon <= Len(url)
                      /\ colon > 1
                      /\ url[1] \in SchemeStart
                      /\ \A i \in 1..(colon - 1) : url[i] \in SchemeChars
        after == IF has_scheme THEN colon + 1 ELSE 1
        has_netloc == /\ after + 1 <= Len(url)
                      /\ url[after] = "/" /\ url[after + 1] = "/"
        net_end == IF has_netloc THEN FindFirst(url, after + 2, {"/", "?", "#"})
                   ELSE after
        path_end == FindFirst(url, net_end, {"?", "#"})
    IN [scheme |-> IF has_scheme THEN SubSeq(url, 1, colon - 1) ELSE <<>>,
        netloc |-> IF has_netloc THEN SubSeq(url, after + 2, net_end - 1) ELSE <<>>,
        path |-> SubSeq(url, net_end, path_end - 1)]

RECURSIVE lstrip(_, _)
\* s.lstrip(c)
lstrip(s, c) == IF s # <<>> /\ Head(s) = c THEN lstrip(Tail(s), c) ELSE s

\* --- the container
\* Mutant: the container gets the environment of the compiling process.
ContainerEnv_from_process(cfg, environ) ==
    LET keys == DOMAIN environ
        Ordered == CHOOSE q \in [1..Cardinality(keys) -> keys] :
                       \A i, j \in 1..Cardinality(keys) : i # j => q[i] # q[j]
    IN [i \in 1..Cardinality(keys) |->
           [name |-> Ordered[i], value |-> environ[Ordered[i]]]]

\* env=[dict(name=k, value=str(v)) for k, v in cfg.env_vars.items()]
ContainerEnv(cfg, environ) ==
    [i \in 1..Len(cfg.env_vars) |->
        [name |-> cfg.env_vars[i][1], value |-> str(cfg.env_vars[i][2])]]

\* TPUGKEJob._build_container
_build_container(self, environ) ==
    LET cfg == self.config
        system == USER_FACING_NAME_TO_SYSTEM_CHARACTERISTICS[self.tpu_type]
        volume_mounts ==
            IF cfg.gcsfuse_mount # None
            THEN <<[name |-> self.gcsfuse_volume,
                    mountPath |-> cfg.gcsfuse_mount[1].mount_path,
                    readOnly |-> cfg.gcsfuse_mount[1].read_only]>>
            ELSE <<>>
    IN [name |-> cfg.name,
        image |-> BundlerId(self.bundler, cfg.name),
        ports |-> <<[containerPort |-> 8471], [containerPort |-> 8080],
                    [containerPort |-> 8431]>>,
        securityContext |-> [privileged |-> TRUE],
        command |-> <<"bash", "-c", cfg.command>>,
        resources |-> [limits |-> ("google.com/tpu" :> system.chips_per_vm)],
        env |-> ContainerEnv(cfg, environ),
        volumeMounts |-> volume_mounts]

\* --- the pod
ReservationKey == "cloud.google.com/reservation-name"

SpotKey == "cloud.google.com/gke-spot"

\* Mutant: a configured reservation is selected whatever the tier.
SchedulingSelector_any_tier(cfg, environ) ==
    IF Truthy(cfg.reservation)
    THEN ReservationKey :> cfg.reservation[1]
    ELSE SpotKey :> "true"

\* tier = os.environ.get("BASTION_TIER", None): tier "0" with a reservation
\* selects the reservation, anything else selects spot nodes.
SchedulingSelector(cfg, environ) ==
    IF environ_get(environ, "BASTION_TIER") = Some("0") /\ Truthy(cfg.reservation)
    THEN ReservationKey :> cfg.reservation[1]
    ELSE SpotKey :> "true"

\* TPUGKEJob._build_pod
_build_pod(self, environ) ==
    LET cfg == self.config
        system == USER_FACING_NAME_TO_SYSTEM_CHARACTERISTICS[self.tpu_type]
        mount == cfg.gcsfuse_mount
        annotations ==
            IF mount # None
            THEN ("gke-gcsfuse/volumes" :> "true")
                 @@ ("gke-gcsfuse/cpu-limit" :> mount[1].cpu)
                 @@ ("gke-gcsfuse/memory-limit" :> mount[1].memory)
                 @@ ("gke-gcsfuse/ephemeral-storage-limit" :> mount[1].ephemeral_gb)
            ELSE EmptyDict
        volumes ==
            IF mount # None
            THEN <<[name |-> self.gcsfuse_volume,
                    csi |-> [driver |-> "gcsfuse.csi.storage.gke.io",
                             readOnly |-> mount[1].read_only,
                             volumeAttributes |->
                                 [bucketName |-> Join(urlparse(mount[1].gcs_path).netloc),
                                  mountOptions |->
                                      "only-dir="
                                      \o Join(lstrip(urlparse(mount[1].gcs_path).path,
                                                     "/"))]]]>>
            ELSE <<>>
    IN [metadata |-> [annotations |-> annotations],
        spec |-> [terminationGracePeriodSeconds |-> 60,
                  restartPolicy |-> "Never",
                  nodeSelector |->
                      SchedulingSelector(cfg, environ)
                      @@ ("cloud.google.com/gke-tpu-accelerator" :> system.gke_accelerator)
                      @@ ("cloud.google.com/gke-tpu-topology" :> system.topology)
                      @@ ("provisioner-nodepool-id" :> cfg.name),
                  containers |-> <<_build_container(self, environ)>>,
                  serviceAccountName |-> cfg.service_account,
                  volumes |-> volumes]]

\* --- the job
\* Mutant: one pod per chip instead of one per host.
_build_job_per_chip(self, environ) ==
    [spec |-> [parallelism |->
                   USER_FACING_NAME_TO_SYSTEM_CHARACTERISTICS[self.tpu_type].chips_per_vm,
               completions |->
                   USER_FACING_NAME_TO_SYSTEM_CHARACTERISTICS[self.tpu_type].chips_per_vm,
               backoffLimit |-> 0,
               template |-> _build_pod(self, environ)]]

\* TPUGKEJob._build_job
_build_job(self, environ) ==
    [spec |-> [parallelism |->
                   USER_FACING_NAME_TO_SYSTEM_CHARACTERISTICS[self.tpu_type].vms_per_slice,
               completions |->
                   USER_FACING_NAME_TO_SYSTEM_CHARACTERISTICS[self.tpu_type].vms_per_slice,
               backoffLimit |-> 0,
               template |-> _build_pod(self, environ)]]

\* --- the jobset
\* Mutant: max_tries is taken as the number of restarts.
MaxRestarts_is_max_tries(cfg) == cfg.max_tries

\* failurePolicy=dict(maxRestarts=cfg.max_tries - 1)
MaxRestarts(cfg) == cfg.max_tries - 1

\* TPUGKEJob._build_jobset
_build_jobset(self, environ) ==
    [metadata |->
         [name |-> self.config.name,
          annotations |-> ("alpha.jobset.sigs.k8s.io/exclusive-topology"
                           :> "cloud.google.com/gke-nodepool")],
     spec |-> [failurePolicy |-> [maxRestarts |-> MaxRestarts(self.config)],
               replicatedJobs |->
                   <<[name |-> "job",
                      replicas |-> self.config.accelerator.num_replicas,
                      template |-> _build_job(self, environ)]>>]]

\* ------------------------------------------------------ ssh-agent
\* dict.pop(key, None), as the resulting dict.
pop(d, key) == [k \in (DOMAIN d) \ {key} |-> d[k]]

\* d[key] = value, as the resulting dict.
setitem(d, key, value) == (key :> value) @@ d

\* os.getenv(key) is falsy: the variable is unset or empty.
NotSet(env, key) == key \notin DOMAIN env \/ env[key] = ""

\* The successful "ssh-agent -s" invocations among the calls.
Started(calls) ==
    SelectSeq(calls, LAMBDA c : c.op = "ssh-agent -s" /\ c.returncode = 0)

\* The pid the next ssh-agent started prints: a new one each time.
NextPid(calls) == ToString(52091 + Len(Started(calls)))

\* _kill_ssh_agent: "ssh-agent -k" kills the agent that SSH_AGENT_PID names
\* (its status is not checked), and both variables are removed.
_kill_ssh_agent(proc) ==
    [proc EXCEPT
        !.agent_calls = Append(@, [op |-> "ssh-agent -k",
                                   pid |-> IF "SSH_AGENT_PID" \in DOMAIN proc.environ
                                           THEN Some(proc.environ["SSH_AGENT_PID"])
                                           ELSE None]),
        !.environ = pop(pop(@, "SSH_AUTH_SOCK"), "SSH_AGENT_PID")]

\* Mutant: the exit hook is registered on every call.
_start_ssh_agent_always_registers(proc, exit) ==
    IF NotSet(proc.environ, "SSH_AGENT_PID")
    THEN IF exit # 0
         THEN [proc EXCEPT
                  !.agent_calls = Append(@, [op |-> "ssh-agent -s", returncode |-> exit]),
                  !.raised = Some(CalledProcessError)]
         ELSE [proc EXCEPT
                  !.agent_calls = Append(@, [op |-> "ssh-agent -s", returncode |-> 0,
                                             pid |-> NextPid(proc.agent_calls)]),
                  !.environ = setitem(setitem(@, "SSH_AUTH_SOCK",
                                              "/tmp/agent." \o NextPid(proc.agent_calls)),
                                      "SSH_AGENT_PID", NextPid(proc.agent_calls)),
                  !.hooks = Append(@, "_kill_ssh_agent")]
    ELSE [proc EXCEPT !.hooks = Append(@, "_kill_ssh_agent")]

\* _start_ssh_agent, on the process state (os.environ, the atexit registry,
\* the ssh-agent invocations so far), where exit is the status of
\* "ssh-agent -s": run with check=True, a non-zero status raises.
_start_ssh_agent(proc, exit) ==
    IF NotSet(proc.environ, "SSH_AGENT_PID")
    THEN IF exit # 0
         THEN [proc EXCEPT
                  !.agent_calls = Append(@, [op |-> "ssh-agent -s", returncode |-> exit]),
                  !.raised = Some(CalledProcessError)]
         ELSE [proc EXCEPT
                  !.agent_calls = Append(@, [op |-> "ssh-agent -s", returncode |-> 0,
                                             pid |-> NextPid(proc.agent_calls)]),
                  !.environ = setitem(setitem(@, "SSH_AUTH_SOCK",
                                              "/tmp/agent." \o NextPid(proc.agent_calls)),
                                      "SSH_AGENT_PID", NextPid(proc.agent_calls)),
                  !.hooks = Append(@, "_kill_ssh_agent")]
    ELSE proc

RECURSIVE RunExitHooks(_, _)
\* The interpreter's exit: the registered functions run, last registered first.
RunExitHooks(proc, i) ==
    IF i = 0 THEN proc
    ELSE RunExitHooks(_kill_ssh_agent(proc), i - 1)

\* ------------------------------------------------------ state
VARIABLES
    cfg,         \* TPUQRMJob: self.config
    use_iap,     \* TPUQRMJob: self._use_iap
    node,        \* the cloud: what the node query answers for cfg.name
    lookups,     \* history: the number of node queries so far
    resolved,    \* history: the node that _use_iap was inferred from
    last,        \* history: the last call, its arguments and its outcome
    gke,         \* TPUGKEJob: self (config, _tpu_type, _gcsfuse_volume, _bundler)
    environ,     \* os.environ
    built,       \* history: the jobsets built, each with the environ it was built in
    attempt,     \* history: the last TPUGKEJob(cfg) call, its cfg and its outcome
    cluster,     \* the cluster: the k8s API calls issued, in order
    hooks,       \* atexit: the functions registered, in order
    agent_calls, \* the ssh-agent invocations of the process, in order
    exited,      \* the process has exited (its atexit functions have run)
    command,     \* a command string, as characters
    wrapped      \* _prepare_cmd_for_gcloud_ssh(command), once computed

qrmvars == <<cfg, use_iap, node, lookups, resolved, last>>

gkevars == <<gke, environ, built>>

ctorvars == <<attempt, cluster>>

agentvars == <<hooks, agent_calls, exited>>

shellvars == <<command, wrapped>>

vars == <<qrmvars, gkevars, ctorvars, agentvars, shellvars>>

\* ------------------------------------------------------ inputs
Endpoint(access) == [accessConfig |-> access]

AccessConfig(ip) == [natIP |-> ip]

Node(endpoints) == Some([networkEndpoints |-> endpoints])

\* What the node query may answer: no node; a node with no endpoint, with an
\* empty natIP, with a natIP; a node whose only natIP is on the second access
\* config of its second endpoint, after an endpoint with no access config and
\* an access config with no natIP.
Nodes ==
    {None,
     Node(<<>>),
     Node(<<Endpoint(<<AccessConfig(Some(""))>>)>>),
     Node(<<Endpoint(<<AccessConfig(Some("34.1.2.3"))>>)>>),
     Node(<<Endpoint(<<>>),
            Endpoint(<<AccessConfig(None), AccessConfig(Some("34.1.2.3"))>>)>>)}

Sessions == {None, Some(Rep(MaxScreenName)), Some(Rep(MaxScreenName + 1))}

ExtraFlags == {<<>>, <<"--strict-host-key-checking=no">>}

Kwargs == {EmptyDict, "check" :> FALSE}

\* The exit statuses of the slices: all zero, or one slice fails.
Exits(n) == {[i \in 1..n |-> IF i = k THEN 1 ELSE 0] : k \in 0..n}

QRMConfig(n) ==
    [name |-> "job", project |-> "proj", zone |-> "zone", command |-> Command,
     accelerator |-> [instance_type |-> "tpu-v4-8", num_replicas |-> n]]

NoCall == [called |-> FALSE]

IsLookup(call) == call.op \in {"get_tpu_node", "get_queued_tpu_node"}

IsSsh(call) == call.op = "gcloud alpha compute -q tpus tpu-vm ssh"

\* gs://b-a/p/s
GcsPath == <<"g", "s", ":", "/", "/", "b", "-", "a", "/", "p", "/", "s">>

\* f"gs://{bucket}/{prefix}"
GcsPathOf(bucket, prefix) ==
    <<"g", "s", ":", "/", "/">> \o bucket \o <<"/">> \o prefix

\* b-a, bucket-a
Buckets == {<<"b", "-", "a">>, <<"b", "u", "c", "k", "e", "t", "-", "a">>}

\* The prefixes: none, p/s, prefix/sub
Prefixes ==
    {<<>>, <<"p", "/", "s">>,
     <<"p", "r", "e", "f", "i", "x", "/", "s", "u", "b">>}

\* The paths of the mounts: a bucket and a prefix under it.
GcsPaths == {GcsPathOf(bucket, prefix) : bucket \in Buckets, prefix \in Prefixes}

\* GCSFuseMount(gcs_path), with its defaults.
GCSFuseMount(gcs_path) ==
    [gcs_path |-> gcs_path, mount_path |-> "/output", cpu |-> "250m",
     memory |-> "256Mi", ephemeral_gb |-> "5Gi", read_only |-> FALSE]

Mounts == {None} \cup {Some(GCSFuseMount(p)) : p \in GcsPaths}

Reservations == {None, Some(""), Some("res-a")}

EnvVars == {<<>>, <<<<"A", PyStr("x")>>, <<"N", PyInt(8)>>>>}

\* The instance types a TPUGKEJob can have: those whose TPU type is in the
\* topology table.
InstanceTypes ==
    {t \in DOMAIN infer_tpu_type :
        infer_tpu_type[t] \in DOMAIN USER_FACING_NAME_TO_SYSTEM_CHARACTERISTICS}

\* The process environments: no tier, the reserved tier, another tier, and the
\* reserved tier beside an ssh-agent's variable.
Environs ==
    {EmptyDict,
     "BASTION_TIER" :> "0",
     "BASTION_TIER" :> "1",
     ("BASTION_TIER" :> "0") @@ ("SSH_AGENT_PID" :> "52091")}

GKEConfig(n, tries, instance_type, reservation, mount, env_vars) ==
    [name |-> "job", project |-> "proj", zone |-> "zone",
     command |-> "python3 -m train", max_tries |-> tries,
     service_account |-> "default", namespace |-> "default",
     env_vars |-> env_vars, gcsfuse_mount |-> mount,
     accelerator |-> [instance_type |-> instance_type, num_replicas |-> n],
     reservation |-> reservation,
     bundler |-> [klass |-> "ArtifactRegistryBundler", repo |-> "repo",
                  image |-> "img"]]

\* TPUGKEJob.__init__(cfg), for a docker bundler and a known TPU type.
TPUGKEJob(c) ==
    [config |-> c, tpu_type |-> infer_tpu_type[c.accelerator.instance_type],
     gcsfuse_volume |-> "gcs-fuse-csi-ephemeral", bundler |-> c.bundler]

NoJob == [config |-> None]

IsJob(self) == "tpu_type" \in DOMAIN self

\* raise NotImplementedError(f"Only docker bundler supported, got: {bundler_cfg}")
DockerOnlyError ==
    [exc |-> "NotImplementedError", msg |-> "Only docker bundler supported"]

\* raise NotImplementedError(f"Missing system characteristics for {self._tpu_type}")
MissingSystemError ==
    [exc |-> "NotImplementedError", msg |-> "Missing system characteristics"]

\* The bundler classes that are BaseDockerBundler or a subclass of it.
DockerBundlers == {"BaseDockerBundler", "ArtifactRegistryBundler", "CloudBuildBundler"}

\* issubclass(klass, BaseDockerBundler)
issubclass_BaseDockerBundler(klass) == klass \in DockerBundlers

\* A bundler config of class klass.
BundlerCfg(klass) == [klass |-> klass, repo |-> "repo", image |-> "img"]

\* A bundler config that wraps another one (or None) as its `inner`.
WrapperCfg(inner) ==
    [klass |-> "WrapperBundler", repo |-> "repo", image |-> "img", inner |-> inner]

\* cfg.bundler as given to the constructor: None, a docker bundler, a tar
\* bundler, and wrappers of a docker bundler, of a tar bundler and of None.
BundlerCfgs ==
    {None,
     Some(BundlerCfg("ArtifactRegistryBundler")),
     Some(BundlerCfg("GCSTarBundler")),
     Some(WrapperCfg(Some(BundlerCfg("CloudBuildBundler")))),
     Some(WrapperCfg(Some(BundlerCfg("GCSTarBundler")))),
     Some(WrapperCfg(None))}

\* The configs given to the constructor: cfg.bundler is an Optional here.
CtorConfigs ==
    {[GKEConfig(1, 1, i, None, None, <<>>) EXCEPT !.bundler = b] :
        i \in {"tpu-v4-8", "tpu-v3-8"}, b \in BundlerCfgs}

\* getattr(bundler_cfg, "inner", bundler_cfg)
getattr_inner(bundler_cfg) ==
    IF bundler_cfg # None /\ "inner" \in DOMAIN bundler_cfg[1]
    THEN bundler_cfg[1].inner
    ELSE bundler_cfg

\* Mutant: any bundler that is present is accepted.
TPUGKEJob_init_any_bundler(c) ==
    IF getattr_inner(c.bundler) = None
    THEN [raised |-> Some(DockerOnlyError), self |-> None]
    ELSE IF infer_tpu_type[c.accelerator.instance_type]
                \notin DOMAIN USER_FACING_NAME_TO_SYSTEM_CHARACTERISTICS
    THEN [raised |-> Some(MissingSystemError), self |-> None]
    ELSE [raised |-> None, self |-> Some(TPUGKEJob([c EXCEPT !.bundler = c.bundler[1]]))]

\* TPUGKEJob.__init__(cfg): the error raised, or the job constructed.
TPUGKEJob_init(c) ==
    IF \/ getattr_inner(c.bundler) = None
       \/ ~issubclass_BaseDockerBundler(getattr_inner(c.bundler)[1].klass)
    THEN [raised |-> Some(DockerOnlyError), self |-> None]
    ELSE IF infer_tpu_type[c.accelerator.instance_type]
                \notin DOMAIN USER_FACING_NAME_TO_SYSTEM_CHARACTERISTICS
    THEN [raised |-> Some(MissingSystemError), self |-> None]
    ELSE [raised |-> None, self |-> Some(TPUGKEJob([c EXCEPT !.bundler = c.bundler[1]]))]

\* custom_jobset_kwargs()
custom_jobset_kwargs ==
    [group |-> "jobset.x-k8s.io", version |-> "v1alpha2", plural |-> "jobsets"]

\* TPUGKEJob._execute: the create request for the JobSet.
_execute(self, env) ==
    [op |-> "create_namespaced_custom_object",
     namespace |-> self.config.namespace,
     body |-> [apiVersion |-> custom_jobset_kwargs.group \o "/"
                              \o custom_jobset_kwargs.version,
               kind |-> "JobSet"] @@ _build_jobset(self, env),
     group |-> custom_jobset_kwargs.group,
     version |-> custom_jobset_kwargs.version,
     plural |-> custom_jobset_kwargs.plural]

\* TPUGKEJob._delete: the delete request for the JobSet.
_delete(self) ==
    [op |-> "delete_k8s_jobset", name |-> self.config.name,
     namespace |-> self.config.namespace]

\* The characters of the commands: a safe one, a space, and the quoting
\* characters ' " $ \
CmdChars == {"a", " ", "'", "\"", "$", "\\"}

\* The command strings of up to MaxCmdLen characters.
Commands == UNION {[1..n -> CmdChars] : n \in 0..MaxCmdLen}

\* ------------------------------------------------------ actions
\* No TPUGKEJob has been constructed and no cluster call issued.
NoCtor == attempt = NoCall /\ cluster = <<>>

\* A fresh process: nothing registered with atexit, no ssh-agent invocation.
NoAgent == hooks = <<>> /\ agent_calls = <<>> /\ exited = FALSE

\* No command has been prepared.
NoShell == command = <<>> /\ wrapped = None

InitQRM ==
    /\ cfg \in {QRMConfig(n) : n \in 1..MaxReplicas}
    /\ use_iap = None
    /\ node \in Nodes
    /\ lookups = 0
    /\ resolved = None
    /\ last = NoCall
    /\ gke = NoJob
    /\ environ = EmptyDict
    /\ built = {}
    /\ NoCtor /\ NoAgent /\ NoShell

InitGKE ==
    /\ gke \in {TPUGKEJob(GKEConfig(n, t, i, r, m, e)) :
                    n \in 1..MaxReplicas, t \in 1..MaxTries, i \in InstanceTypes,
                    r \in Reservations, m \in Mounts, e \in EnvVars}
    /\ environ \in Environs
    /\ built = {}
    /\ cfg = QRMConfig(1)
    /\ use_iap = None
    /\ node = None
    /\ lookups = 0
    /\ resolved = None
    /\ last = NoCall
    /\ NoCtor /\ NoAgent /\ NoShell

\* One call of _build_jobset.
BuildJobset ==
    /\ built' = built \cup {[environ |-> environ,
                              manifest |-> _build_jobset(gke, environ)]}
    /\ UNCHANGED <<gke, environ, qrmvars, ctorvars, agentvars, shellvars>>

\* The process environment changes between two builds.
SetEnviron ==
    /\ environ' \in Environs \ {environ}
    /\ UNCHANGED <<gke, built, qrmvars, ctorvars, agentvars, shellvars>>

\* One call of _execute_remote_cmd.
Dispatch ==
    /\ lookups < MaxLookups
    /\ \E session \in Sessions, extra \in ExtraFlags, kwargs \in Kwargs,
          from_vm \in BOOLEAN, exits \in Exits(Len(Slices(cfg))) :
          LET args == [cmd |-> cfg.command, worker |-> "all",
                       detached_session |-> session, batch_size |-> 100,
                       extra_ssh_flags |-> extra, kwargs |-> kwargs]
              env == [from_vm |-> from_vm, node |-> node, exits |-> exits]
          IN \E r \in {_execute_remote_cmd(use_iap, cfg, args, env)} :
             /\ use_iap' = r.use_iap
             /\ lookups' = lookups
                           + Cardinality({i \in 1..Len(r.calls) : IsLookup(r.calls[i])})
             /\ resolved' = IF use_iap = None /\ r.use_iap # None THEN node
                            ELSE resolved
             /\ last' = [called |-> TRUE, args |-> args, from_vm |-> from_vm,
                         exits |-> exits, calls |-> r.calls, raised |-> r.raised,
                         procs |-> r.procs]
    /\ UNCHANGED <<cfg, node, gkevars, ctorvars, agentvars, shellvars>>

\* The cloud: the node is created, deleted, or its endpoints change.
NodeChanges ==
    /\ node' \in Nodes \ {node}
    /\ UNCHANGED <<cfg, use_iap, lookups, resolved, last, gkevars, ctorvars,
                   agentvars, shellvars>>

\* The environments a process starts in: no agent, an agent inherited from
\* the parent, and an empty SSH_AGENT_PID.
AgentEnvirons ==
    {EmptyDict,
     ("SSH_AGENT_PID" :> "4242") @@ ("SSH_AUTH_SOCK" :> "/tmp/agent.4241"),
     "SSH_AGENT_PID" :> ""}

\* A process with a TPUQRMJob.
InitAgent ==
    /\ cfg \in {QRMConfig(n) : n \in 1..MaxReplicas}
    /\ use_iap = None
    /\ node \in Nodes
    /\ lookups = 0
    /\ resolved = None
    /\ last = NoCall
    /\ gke = NoJob
    /\ environ \in AgentEnvirons
    /\ built = {}
    /\ NoCtor /\ NoAgent /\ NoShell

\* TPUQRMJob.execute(): from a VM the ssh-agent is started first; then the
\* base class runs _execute, which dispatches cfg.command.
Execute ==
    /\ ~exited
    /\ lookups < MaxLookups
    /\ Len(agent_calls) < MaxAgentCalls
    /\ \E from_vm \in BOOLEAN, agent_exit \in {0, 1}, exits \in Exits(Len(Slices(cfg))) :
          LET args == [cmd |-> cfg.command, worker |-> "all",
                       detached_session |-> None, batch_size |-> 100,
                       extra_ssh_flags |-> <<>>, kwargs |-> EmptyDict]
              env == [from_vm |-> from_vm, node |-> node, exits |-> exits]
              proc == [environ |-> environ, hooks |-> hooks,
                       agent_calls |-> agent_calls, raised |-> None]
          IN \E a \in {IF from_vm THEN _start_ssh_agent(proc, agent_exit) ELSE proc} :
             /\ environ' = a.environ
             /\ hooks' = a.hooks
             /\ agent_calls' = a.agent_calls
             /\ IF a.raised # None
                THEN /\ last' = [called |-> TRUE, args |-> args, from_vm |-> from_vm,
                                 exits |-> exits, calls |-> <<>>, raised |-> a.raised,
                                 procs |-> <<>>]
                     /\ UNCHANGED <<use_iap, lookups, resolved>>
                ELSE \E r \in {_execute_remote_cmd(use_iap, cfg, args, env)} :
                     /\ use_iap' = r.use_iap
                     /\ lookups' = lookups
                                   + Cardinality({i \in 1..Len(r.calls) :
                                                     IsLookup(r.calls[i])})
                     /\ resolved' = IF use_iap = None /\ r.use_iap # None THEN node
                                    ELSE resolved
                     /\ last' = [called |-> TRUE, args |-> args, from_vm |-> from_vm,
                                 exits |-> exits, calls |-> r.calls, raised |-> r.raised,
                                 procs |-> r.procs]
    /\ UNCHANGED <<cfg, node, gke, built, exited, ctorvars, shellvars>>

\* The process exits: the functions registered with atexit run, once.
ProcessExit ==
    /\ ~exited
    /\ exited' = TRUE
    /\ \E a \in {RunExitHooks([environ |-> environ, hooks |-> hooks,
                                agent_calls |-> agent_calls, raised |-> None],
                               Len(hooks))} :
          /\ environ' = a.environ
          /\ agent_calls' = a.agent_calls
    /\ UNCHANGED <<hooks, gke, built, qrmvars, ctorvars, shellvars>>

\* No job yet.
InitCtor ==
    /\ gke = NoJob
    /\ environ \in {EmptyDict, "BASTION_TIER" :> "0"}
    /\ built = {}
    /\ NoCtor /\ NoAgent /\ NoShell
    /\ cfg = QRMConfig(1)
    /\ use_iap = None
    /\ node = None
    /\ lookups = 0
    /\ resolved = None
    /\ last = NoCall

\* job = TPUGKEJob(cfg): when the constructor raises, there is no new job.
Construct ==
    /\ \E c \in CtorConfigs :
          \E r \in {TPUGKEJob_init(c)} :
             /\ attempt' = [called |-> TRUE, cfg |-> c, raised |-> r.raised]
             /\ gke' = IF r.raised = None THEN r.self[1] ELSE gke
    /\ UNCHANGED <<cluster, environ, built, qrmvars, agentvars, shellvars>>

\* job._execute(): the JobSet is submitted to the cluster.
Submit ==
    /\ IsJob(gke)
    /\ Len(cluster) < MaxClusterCalls
    /\ cluster' = Append(cluster, [by |-> gke.config, call |-> _execute(gke, environ)])
    /\ UNCHANGED <<attempt, gkevars, qrmvars, agentvars, shellvars>>

\* job._delete(): the JobSet is deleted from the cluster.
Delete ==
    /\ IsJob(gke)
    /\ Len(cluster) < MaxClusterCalls
    /\ cluster' = Append(cluster, [by |-> gke.config, call |-> _delete(gke)])
    /\ UNCHANGED <<attempt, gkevars, qrmvars, agentvars, shellvars>>

\* A command string is given.
InitShell ==
    /\ command \in Commands
    /\ wrapped = None
    /\ cfg = QRMConfig(1)
    /\ use_iap = None
    /\ node = None
    /\ lookups = 0
    /\ resolved = None
    /\ last = NoCall
    /\ gke = NoJob
    /\ environ = EmptyDict
    /\ built = {}
    /\ NoCtor /\ NoAgent

\* One call of _prepare_cmd_for_gcloud_ssh.
PrepareCmd ==
    /\ wrapped = None
    /\ wrapped' = Some(_prepare_cmd_for_gcloud_ssh(command))
    /\ UNCHANGED <<command, qrmvars, gkevars, ctorvars, agentvars>>

Next == Dispatch \/ NodeChanges

Spec == InitQRM /\ [][Next]_vars

NextGKE == BuildJobset \/ SetEnviron

SpecGKE == InitGKE /\ [][NextGKE]_vars

NextAgent == Execute \/ ProcessExit

SpecAgent == InitAgent /\ [][NextAgent]_vars

NextCtor == Construct \/ Submit \/ Delete

SpecCtor == InitCtor /\ [][NextCtor]_vars

NextShell == PrepareCmd

SpecShell == InitShell /\ [][NextShell]_vars

\* ------------------------------------------------------ claims: dispatcher
\* The gcloud ssh invocations of the last call, in the order issued.
SshCalls == SelectSeq(last.calls, IsSsh)

LookupCalls == SelectSeq(last.calls, IsLookup)

NumReplicas == cfg.accelerator.num_replicas

\* The address of slice i (from 0) of n, as the claims state it.
SliceName(name, n, i) == IF n = 1 THEN name ELSE name \o "-" \o ToString(i)

\* check=True is in force for the last call's subprocesses.
Checked == "check" \notin DOMAIN last.args.kwargs \/ last.args.kwargs["check"]

\* Some slice that was invoked exited non-zero.
SomeSliceFailed == \E i \in 1..Len(SshCalls) : last.exits[i] # 0

\* C1: a call of _execute_remote_cmd that returns, returns exactly num_replicas
\* results; result i is that of the invocation addressed to slice i, the slices
\* being addressed by the bare name (n = 1) or name-0 .. name-(n-1) (n > 1), and
\* invoked in that order.
C1_OneResultPerSlice ==
    (last.called /\ last.raised = None) =>
        /\ Len(last.procs) = NumReplicas
        /\ Len(SshCalls) = NumReplicas
        /\ \A i \in 1..NumReplicas :
               /\ last.procs[i].args.slice = SliceName(cfg.name, NumReplicas, i - 1)
               /\ last.procs[i].args = SshCalls[i]
               /\ last.procs[i].returncode = last.exits[i]

C1_Witness ==
    /\ last.called /\ last.raised = None
    /\ Len(last.procs) >= 2
    /\ last.procs[2].args.slice = "job-1"
    /\ last.procs[2].returncode = 1

\* C2 (as claimed): a session name longer than 80 is rejected with an error
\* before any ssh invocation, and when it is rejected for its length no node
\* lookup has been made either; a name of exactly 80 is not rejected, and a
\* call that returns has invoked every slice.
C2_Original ==
    (last.called /\ Truthy(last.args.detached_session)) =>
        /\ Len(last.args.detached_session[1]) > MaxScreenName =>
               /\ last.raised # None
               /\ SshCalls = <<>>
               /\ last.raised = Some(ScreenNameError) => LookupCalls = <<>>
        /\ Len(last.args.detached_session[1]) = MaxScreenName =>
               /\ last.raised # Some(ScreenNameError)
               /\ last.raised = None => Len(SshCalls) = NumReplicas

\* C2 (amended): a session name longer than 80 is rejected with an error
\* before any ssh invocation, though after the routing decision and its node
\* lookup; a name of exactly 80 is not rejected for its length, and a call
\* that returns has invoked every slice.
C2_RejectedBeforeSsh ==
    (last.called /\ Truthy(last.args.detached_session)) =>
        /\ Len(last.args.detached_session[1]) > MaxScreenName =>
               /\ last.raised \in {Some(ScreenNameError), Some(NoTpuError)}
               /\ SshCalls = <<>>
               /\ last.procs = <<>>
        /\ Len(last.args.detached_session[1]) = MaxScreenName =>
               /\ last.raised # Some(ScreenNameError)
               /\ last.raised = None => Len(SshCalls) = NumReplicas

C2_Witness ==
    /\ last.called
    /\ Truthy(last.args.detached_session)
    /\ Len(last.args.detached_session[1]) = MaxScreenName + 1
    /\ last.raised = Some(ScreenNameError)
    /\ LookupCalls # <<>>
    /\ use_iap # None

\* C3 (as claimed): the node query is made at most once over the calls on one
\* job.
C3_Original == lookups <= 1

\* C3 (amended): once _use_iap has left None it never changes and no later
\* call queries the node.
C3_ResolvedOnce ==
    [][use_iap # None => (use_iap' = use_iap /\ lookups' = lookups)]_vars

C3_Witness ==
    /\ last.called /\ ~last.from_vm
    /\ use_iap # None
    /\ lookups = 1
    /\ LookupCalls = <<>>
    /\ SshCalls # <<>>

\* C4 (as claimed): with default options, when a slice of a multi-slice job
\* exits non-zero, the call still returns one result per slice, the failing one
\* included, and every slice is invoked.
C4_Original ==
    (last.called /\ NumReplicas > 1 /\ last.args.kwargs = EmptyDict
     /\ SomeSliceFailed) =>
        /\ last.raised = None
        /\ Len(last.procs) = NumReplicas
        /\ Len(SshCalls) = NumReplicas
        /\ \A i \in 1..NumReplicas : last.procs[i].returncode = last.exits[i]

\* C4 (amended): when a slice exits non-zero, a call with check=False returns
\* one result per slice, the failing one included; a call with check in force
\* (the default) raises CalledProcessError at the first failing slice, returns
\* nothing and invokes no later slice.
C4_FailureRaisesUnlessUnchecked ==
    (last.called /\ SomeSliceFailed) =>
        IF Checked
        THEN /\ last.raised = Some(CalledProcessError)
             /\ last.procs = <<>>
             /\ last.exits[Len(SshCalls)] # 0
             /\ \A i \in 1..(Len(SshCalls) - 1) : last.exits[i] = 0
        ELSE /\ last.raised = None
             /\ Len(last.procs) = NumReplicas
             /\ Len(SshCalls) = NumReplicas
             /\ \A i \in 1..NumReplicas : last.procs[i].returncode = last.exits[i]

C4_Witness ==
    /\ last.called /\ NumReplicas > 1
    /\ last.args.kwargs = EmptyDict
    /\ last.exits[1] # 0
    /\ last.raised = Some(CalledProcessError)
    /\ Len(SshCalls) = 1

\* The node has a network endpoint exposing a public (NAT) address.
ExposesPublicAddress(n) ==
    \E e \in DOMAIN n.networkEndpoints :
        \E a \in DOMAIN n.networkEndpoints[e].accessConfig :
            n.networkEndpoints[e].accessConfig[a].natIP \notin {None, Some("")}

\* C5: from outside the network and for every replica count, each slice's ssh
\* invocation gets --tunnel-through-iap put before the caller's flags exactly
\* when the node that was looked up exposes no public address.
C5_TunnelIffNoPublicAddress ==
    (last.called /\ ~last.from_vm) =>
        \A i \in 1..Len(SshCalls) :
            /\ resolved # None
            /\ SshCalls[i].extra_ssh_flags =
                   (IF ExposesPublicAddress(resolved[1]) THEN <<>> ELSE <<FlagIap>>)
                   \o last.args.extra_ssh_flags

C5_Witness ==
    /\ last.called /\ ~last.from_vm
    /\ Len(SshCalls) = 2
    /\ SshCalls[2].extra_ssh_flags = <<FlagIap>> \o last.args.extra_ssh_flags
    /\ LookupCalls # <<>>

\* C6: a call from inside the network makes no node query, leaves _use_iap as
\* it was, and gives every slice's invocation --internal-ip followed by the
\* caller's flags and nothing else.
C6_InternalFromVm ==
    [][(last'.called /\ last' # last /\ last'.from_vm) =>
          /\ use_iap' = use_iap
          /\ lookups' = lookups
          /\ \A i \in 1..Len(last'.calls) :
                 /\ ~IsLookup(last'.calls[i])
                 /\ IsSsh(last'.calls[i]) =>
                        last'.calls[i].extra_ssh_flags =
                            <<FlagInternalIp>> \o last'.args.extra_ssh_flags]_vars

C6_Witness ==
    /\ last.called /\ last.from_vm
    /\ use_iap = None /\ lookups = 0
    /\ Len(SshCalls) = NumReplicas
    /\ last.args.extra_ssh_flags # <<>>

\* C14: a call from outside the network while _use_iap is None, when the node
\* query answers that the node does not exist, raises the ValueError of
\* _infer_iap, invokes ssh for no slice, returns nothing, and leaves _use_iap
\* None: the failure is cached neither as direct nor as tunneled.
C14_MissingNodeFails ==
    [][(node = None /\ node' = node /\ use_iap = None
        /\ last'.called /\ ~last'.from_vm) =>
          /\ last'.raised = Some(NoTpuError)
          /\ \A i \in 1..Len(last'.calls) : ~IsSsh(last'.calls[i])
          /\ \E i \in 1..Len(last'.calls) : IsLookup(last'.calls[i])
          /\ last'.procs = <<>>
          /\ use_iap' = None]_vars

C14_Witness ==
    /\ last.called /\ ~last.from_vm
    /\ last.raised = Some(NoTpuError)
    /\ LookupCalls # <<>>
    /\ SshCalls = <<>>
    /\ use_iap = None
    /\ node = None
    /\ lookups = 2

\* ------------------------------------------------------ claims: compiler
\* The job template, the pod and the node selector of a built jobset.
JobOf(manifest) == manifest.spec.replicatedJobs[1].template

PodOf(manifest) == JobOf(manifest).spec.template

SelectorOf(manifest) == PodOf(manifest).spec.nodeSelector

\* The scheduling-tier marker of an environment is the reserved tier.
ReservedTier(env) == "BASTION_TIER" \in DOMAIN env /\ env["BASTION_TIER"] = "0"

\* C7: the jobset's failurePolicy.maxRestarts is max_tries - 1, never
\* negative, and the job's backoffLimit is 0.
C7_MaxRestarts ==
    \A b \in built :
        /\ b.manifest.spec.failurePolicy.maxRestarts = gke.config.max_tries - 1
        /\ b.manifest.spec.failurePolicy.maxRestarts >= 0
        /\ JobOf(b.manifest).spec.backoffLimit = 0

C7_Witness ==
    \E b \in built :
        /\ gke.config.max_tries = 3
        /\ b.manifest.spec.failurePolicy.maxRestarts = 2

\* C8: the jobset has exactly one replicated job, with num_replicas replicas,
\* whose job has parallelism = completions = the hosts per slice of the TPU
\* type.
C8_ReplicasAndHosts ==
    \A b \in built :
        /\ Len(b.manifest.spec.replicatedJobs) = 1
        /\ b.manifest.spec.replicatedJobs[1].replicas
               = gke.config.accelerator.num_replicas
        /\ JobOf(b.manifest).spec.parallelism
               = USER_FACING_NAME_TO_SYSTEM_CHARACTERISTICS[gke.tpu_type].vms_per_slice
        /\ JobOf(b.manifest).spec.completions = JobOf(b.manifest).spec.parallelism

C8_Witness ==
    \E b \in built :
        /\ gke.config.accelerator.num_replicas = 2
        /\ gke.config.accelerator.instance_type = "tpu-v5litepod-16"
        /\ b.manifest.spec.replicatedJobs[1].replicas = 2
        /\ JobOf(b.manifest).spec.parallelism = 4

\* C9: the node selector has the reservation-name key, with the reservation
\* as its value, exactly when the tier marker is the reserved tier and a
\* reservation is configured, and the spot key otherwise: always one of the
\* two, never both.
C9_ReservationOrSpot ==
    \A b \in built :
        LET reserved == ReservedTier(b.environ)
                        /\ gke.config.reservation \notin {None, Some("")}
        IN /\ (ReservationKey \in DOMAIN SelectorOf(b.manifest)) <=> reserved
           /\ (SpotKey \in DOMAIN SelectorOf(b.manifest)) <=> ~reserved
           /\ reserved =>
                  SelectorOf(b.manifest)[ReservationKey] = gke.config.reservation[1]
           /\ ~reserved => SelectorOf(b.manifest)[SpotKey] = "true"

C9_Witness ==
    \E a, b \in built :
        /\ ReservationKey \in DOMAIN SelectorOf(a.manifest)
        /\ SelectorOf(a.manifest)[ReservationKey] = "res-a"
        /\ SpotKey \in DOMAIN SelectorOf(b.manifest)

\* C10 (as claimed): two builds of the same job yield the same manifest,
\* whatever the process environment of each.
C10_Original == \A a, b \in built : a.manifest = b.manifest

\* C10 (amended): two builds of the same job under the same BASTION_TIER yield
\* the same manifest, whatever else differs in the process environment; and a
\* build changes no job state.
C10_DeterministicGivenTier ==
    /\ [](\A a, b \in built :
             environ_get(a.environ, "BASTION_TIER") = environ_get(b.environ, "BASTION_TIER")
             => a.manifest = b.manifest)
    /\ [][built' # built => gke' = gke]_vars

C10_Witness ==
    \E a, b \in built :
        /\ a.environ # b.environ
        /\ a.manifest = b.manifest
        /\ ReservationKey \in DOMAIN SelectorOf(a.manifest)

\* C13: with a GCS FUSE mount of path gs://<bucket>/<prefix>, the pod has
\* exactly one volume, a CSI volume of the gcsfuse driver whose bucketName is
\* <bucket> and whose mountOptions is only-dir=<prefix>, and the container's
\* one volume mount names that volume; with no mount the pod has no volume and
\* no annotation and the container has no volume mount.
C13_FuseVolume ==
    \A b \in built :
        LET pod == PodOf(b.manifest)
            container == pod.spec.containers[1]
            mount == gke.config.gcsfuse_mount
        IN IF mount # None
           THEN /\ Len(pod.spec.volumes) = 1
                /\ pod.spec.volumes[1].csi.driver = "gcsfuse.csi.storage.gke.io"
                /\ \E bucket \in Buckets, prefix \in Prefixes :
                       /\ mount[1].gcs_path = GcsPathOf(bucket, prefix)
                       /\ pod.spec.volumes[1].csi.volumeAttributes.bucketName
                              = Join(bucket)
                       /\ pod.spec.volumes[1].csi.volumeAttributes.mountOptions
                              = "only-dir=" \o Join(prefix)
                /\ Len(container.volumeMounts) = 1
                /\ container.volumeMounts[1].name = pod.spec.volumes[1].name
                /\ pod.metadata.annotations["gke-gcsfuse/volumes"] = "true"
           ELSE /\ pod.spec.volumes = <<>>
                /\ pod.metadata.annotations = EmptyDict
                /\ container.volumeMounts = <<>>

C13_Witness ==
    \E b \in built :
        /\ gke.config.gcsfuse_mount # None
        /\ PodOf(b.manifest).spec.volumes[1].csi.volumeAttributes
               = [bucketName |-> "bucket-a", mountOptions |-> "only-dir=prefix/sub"]
        /\ PodOf(b.manifest).spec.containers[1].volumeMounts[1].name
               = PodOf(b.manifest).spec.volumes[1].name

\* ------------------------------------------------------ claims: constructor
\* The bundler config (an Optional), or the one it wraps, is a docker one.
HasDockerBundler(bundler) ==
    /\ bundler # None
    /\ IF "inner" \in DOMAIN bundler[1]
       THEN /\ bundler[1].inner # None
            /\ bundler[1].inner[1].klass \in DockerBundlers
       ELSE bundler[1].klass \in DockerBundlers

\* C11: TPUGKEJob(cfg) with a bundler that is absent or is not a docker
\* bundler raises NotImplementedError and yields no job: the job there was
\* (if any) and the cluster are as before; and every submit or delete call
\* the cluster has received was issued by a job whose bundler is a docker one.
C11_DockerBundlerOnly ==
    /\ [](\A i \in 1..Len(cluster) : HasDockerBundler(Some(cluster[i].by.bundler)))
    /\ [](IsJob(gke) => HasDockerBundler(Some(gke.config.bundler)))
    /\ [][(attempt'.called /\ cluster' = cluster
           /\ ~HasDockerBundler(attempt'.cfg.bundler)) =>
             /\ attempt'.raised = Some(DockerOnlyError)
             /\ gke' = gke]_vars

C11_Witness ==
    /\ attempt.called
    /\ attempt.cfg.bundler = Some(BundlerCfg("GCSTarBundler"))
    /\ attempt.raised = Some(DockerOnlyError)
    /\ gke = NoJob
    /\ cluster = <<>>

\* ------------------------------------------------------ claims: ssh-agent
\* The "ssh-agent -k" invocations among the calls.
Killed(calls) == SelectSeq(calls, LAMBDA c : c.op = "ssh-agent -k")

\* C12: over the execute calls of one process, "ssh-agent -s" is run only
\* while no agent is recorded in SSH_AGENT_PID and succeeds at most once; at
\* most one function is ever registered with atexit; no agent is killed before
\* the process exits; and once it has exited, the agent this process started
\* has been killed exactly once (and nothing else has).
C12_AgentStartedAndKilledOnce ==
    /\ [](Len(hooks) <= 1 /\ Len(Started(agent_calls)) <= 1)
    /\ [](~exited => Killed(agent_calls) = <<>>)
    /\ [](exited =>
            /\ Len(Killed(agent_calls)) = Len(Started(agent_calls))
            /\ \A i \in 1..Len(Started(agent_calls)) :
                   Killed(agent_calls)[i].pid = Some(Started(agent_calls)[i].pid))
    /\ [][Len(Started(agent_calls')) > Len(Started(agent_calls)) =>
             /\ NotSet(environ, "SSH_AGENT_PID")
             /\ last'.from_vm
             /\ environ'["SSH_AGENT_PID"] = Started(agent_calls')[1].pid]_vars

C12_Witness ==
    /\ exited
    /\ Len(Started(agent_calls)) = 1
    /\ Len(Killed(agent_calls)) = 1
    /\ Len(agent_calls) = 3
    /\ agent_calls[1].op = "ssh-agent -s" /\ agent_calls[1].returncode = 1
    /\ "SSH_AGENT_PID" \notin DOMAIN environ
    /\ last.called /\ last.from_vm /\ last.raised = None

\* ------------------------------------------------------ claims: escaping
\* The prepared command as the local shell reads it inside --command="...".
Decoded == DoubleQuoted(wrapped[1], 1, [out |-> <<>>, closed |-> FALSE,
                                        expanded |-> FALSE])

\* C15: for every command string, the prepared command, read by the local
\* shell inside the double quotes of --command="...", is exactly the
\* single-quoted form shlex.quote gives the command: no " of it closes the
\* argument and no $ of it is left to expand.
C15_EscapingKeepsQuoting ==
    wrapped # None =>
        /\ ~Decoded.closed
        /\ ~Decoded.expanded
        /\ Decoded.out = shlex_quote(command)

\* A command of a backslash and a double quote has been prepared.
C15_Witness ==
    /\ command = <<"\\", "\"">>
    /\ wrapped = Some(<<"'", "\\", "\\", "\"", "'">>)

====
